---- MODULE Spec2Model ----
(***************************************************************************)
(* Ledger and lifecycle engine of the ZYSE investment platform             *)
(* (src/server.js over the SQLite helpers of utils/db).                    *)
(*                                                                         *)
(* The four tables the engine writes (users, investments, transactions,    *)
(* withdrawal_requests) are the state.  Every request handler is a         *)
(* sequence of awaited database calls; a handler instance is a process     *)
(* whose position (pc) advances by one database call per step, so that     *)
(* other handlers may run between two calls exactly as they may on the     *)
(* Node event loop.  Money is counted in hundredths of a ngwee so that     *)
(* the 12% charge and the daily rates stay exact.                          *)
(***************************************************************************)
EXTENDS Integers, Sequences, FiniteSets, TLC

\* ------------------------------------------------------------------------
\* Units
\* ------------------------------------------------------------------------
Cent == 10 * 10
Kwacha == 100 * Cent
K(n) == n * Kwacha

\* ------------------------------------------------------------------------
\* Bounds of the model
\* ------------------------------------------------------------------------
MaxInv == 3
MaxTx == 4
MaxReq == 2
MaxDay == 2
MaxAccrualRuns == 2
MaxHistory == 50

\* ------------------------------------------------------------------------
\* Program constants
\* ------------------------------------------------------------------------
NULL == 0
MinWithdrawal == 50
ChargePercent == 12

Users == {1}
Procs == {1, 2}

\* packages table as seeded by seedPackages (first two tiers)
Packages ==
  (1 :> [level |-> "L1", amount |-> K(200), daily_income |-> K(6)]) @@
  (2 :> [level |-> "L2", amount |-> K(350), daily_income |-> K(8)])

\* ------------------------------------------------------------------------
\* Inputs the handlers are driven with
\* ------------------------------------------------------------------------
PackageIdInputs == {1, 2, 3}
InvestAmountInputs == {K(200), K(350)}
DepositAmountInputs == {K(600)}
WithdrawAmountInputs == {K(50) - Cent, K(200)}
InvestmentIdInputs == {NULL, 1}
StatusInputs == {"active", "withdrawn"}
TxtInputs == {"TXN0001"}

VARIABLES
  users,                \* users table: id -> row
  investments,          \* investments table: id -> row
  transactions,         \* transactions table: id -> row
  withdrawal_requests,  \* withdrawal_requests table: id -> row
  seq,                  \* AUTOINCREMENT counters of the three tables
  today,                \* current calendar day
  procs,                \* request handlers in flight
  cron,                 \* the daily accrual callback
  overlap               \* the handlers the event loop is let to overlap

vars == <<users, investments, transactions, withdrawal_requests, seq, today,
          procs, cron, overlap>>

\* ------------------------------------------------------------------------
\* Database helpers
\* ------------------------------------------------------------------------
DB == [investments |-> investments, transactions |-> transactions,
       users |-> users, withdrawal_requests |-> withdrawal_requests]

RECURSIVE Rows(_, _)
Rows(tbl, n) ==
  IF n = 0 THEN <<>>
  ELSE IF n \in DOMAIN tbl THEN Append(Rows(tbl, n - 1), tbl[n])
  ELSE Rows(tbl, n - 1)

\* the highest rowid of a table
LastId(tbl) ==
  IF DOMAIN tbl = {} THEN 0
  ELSE CHOOSE n \in DOMAIN tbl : \A m \in DOMAIN tbl : m <= n

\* SELECT ... FROM transactions WHERE user_id = ?   (in rowid order)
UserTransactions(txs, u) ==
  SelectSeq(Rows(txs, LastId(txs)), LAMBDA t : t.user_id = u)

Abs(x) == IF x < 0 THEN -x ELSE x

RECURSIVE SumAmounts(_)
SumAmounts(s) == IF s = <<>> THEN 0 ELSE Head(s).amount + SumAmounts(Tail(s))

RECURSIVE SumAbsAmounts(_)
SumAbsAmounts(s) ==
  IF s = <<>> THEN 0 ELSE Abs(Head(s).amount) + SumAbsAmounts(Tail(s))

totalDeposits(rows) ==
  SumAmounts(SelectSeq(rows, LAMBDA t : t.type = "deposit" /\ t.amount > 0))

totalWithdrawn(rows) ==
  SumAmounts(SelectSeq(rows, LAMBDA t : t.type = "withdrawal"))

allAccrualsAndBonuses(rows) ==
  SumAmounts(SelectSeq(rows, LAMBDA t : t.type = "accrual" \/ t.type = "bonus"))

\* variant: the investment debits summed with their sign
investmentsFromBalance_signed(rows) ==
  SumAmounts(SelectSeq(rows, LAMBDA t : t.type = "investment"))

investmentsFromBalance(rows) ==
  SumAbsAmounts(SelectSeq(rows, LAMBDA t : t.type = "investment"))

availableBalance(rows) ==
  totalDeposits(rows) + allAccrualsAndBonuses(rows)
    - totalWithdrawn(rows) - investmentsFromBalance(rows)

\* the balance of user u in a given transactions table
Balance(txs, u) == availableBalance(UserTransactions(txs, u))

ActiveIds(invs, u) ==
  {i \in DOMAIN invs : invs[i].user_id = u /\ invs[i].status = "active"}

\* ------------------------------------------------------------------------
\* Handler processes
\* ------------------------------------------------------------------------
Idle == [op |-> "idle"]

InFlight == {p \in Procs : procs[p].op # "idle"}

CronBusy == IF cron.pc = "idle" THEN 0 ELSE 1

\* Every handler may be suspended at each await while another one runs.
\* The model runs handlers one after the other, except the handlers named
\* in overlap, two of which may be in flight together.
MayStart(op) ==
  \/ InFlight = {} /\ cron.pc = "idle"
  \/ /\ op \in overlap
     /\ \A q \in InFlight : procs[q].op \in overlap
     /\ cron.pc # "idle" => "accrual" \in overlap
     /\ Cardinality(InFlight) + CronBusy < 2

\* a new request is taken by the lowest free handler slot
CanStart(p, op) ==
  /\ procs[p].op = "idle"
  /\ \A q \in Procs : q < p => procs[q].op # "idle"
  /\ MayStart(op)

Reply(p, r) == [procs EXCEPT ![p] = [@ EXCEPT !.pc = "respond", !.result = r]]

Goto(p, l) == [procs EXCEPT ![p] = [@ EXCEPT !.pc = l]]

At(p, o, l) == procs[p].op = o /\ procs[p].pc = l

TablesUnchanged ==
  UNCHANGED <<users, investments, transactions, withdrawal_requests, seq>>

\* ------------------------------------------------------------------------
\* Initial state: one registered user at level L0, empty tables
\* ------------------------------------------------------------------------
InitTables ==
  /\ users = [u \in Users |->
                [level |-> "L0", withdrawal_password |-> FALSE,
                 withdrawal_wallet |-> "NULL", last_withdrawal_date |-> NULL]]
  /\ investments = <<>>
  /\ transactions = <<>>
  /\ withdrawal_requests = <<>>
  /\ seq = [investments |-> 0, transactions |-> 0, withdrawal_requests |-> 0]
  /\ today = 1
  /\ procs = [p \in Procs |-> Idle]
  /\ cron = [pc |-> "idle", runs |-> 0, queue |-> <<>>, pre |-> <<>>]

\* handlers run one after the other
Init == InitTables /\ overlap = {}

\* two decisions on deposit requests may be in flight together
InitDeposits == InitTables /\ overlap = {"decideDeposit"}

\* two decisions on withdrawal requests may be in flight together
InitPayouts == InitTables /\ overlap = {"decideWithdrawal"}

\* an invest-from-balance handler and a run of the accrual job may be in
\* flight together
InitRace == InitTables /\ overlap = {"investFromBalance", "accrual"}

\* two deposit requests may be in flight together
InitRecharge == InitTables /\ overlap = {"recharge"}

\* An account that deposited K600, invested K200 of it at L1 and has been
\* credited by the accrual job on each of n days since.
InitDashboard ==
  /\ \E n \in 0..MaxHistory :
       /\ investments =
            <<[user_id |-> 1, package_id |-> 1, deposit_amount |-> K(600),
               total_accruals |-> 0, status |-> "deposit_completed",
               maturity_date |-> "9999-12-31", transaction_txt |-> "TXN0000"],
              [user_id |-> 1, package_id |-> 1, deposit_amount |-> K(200),
               total_accruals |-> n * K(6), status |-> "active",
               maturity_date |-> "9999-12-31",
               transaction_txt |-> "BALANCE_INVESTMENT"]>>
       /\ transactions =
            [t \in 1..n + 2 |->
               IF t = 1
                 THEN [user_id |-> 1, type |-> "deposit", amount |-> K(600),
                       investment_id |-> 1]
               ELSE IF t = 2
                 THEN [user_id |-> 1, type |-> "investment", amount |-> -K(200),
                       investment_id |-> 2]
               ELSE [user_id |-> 1, type |-> "accrual", amount |-> K(6),
                     investment_id |-> 2]]
       /\ seq = [investments |-> 2, transactions |-> n + 2,
                 withdrawal_requests |-> 0]
  /\ users = [u \in Users |->
                [level |-> "L1", withdrawal_password |-> FALSE,
                 withdrawal_wallet |-> "NULL", last_withdrawal_date |-> NULL]]
  /\ withdrawal_requests = <<>>
  /\ today = 1
  /\ procs = [p \in Procs |-> Idle]
  /\ cron = [pc |-> "idle", runs |-> 0, queue |-> <<>>, pre |-> <<>>]
  /\ overlap = {}

\* two invest-from-balance handlers may be in flight together
InitSwitch == InitTables /\ overlap = {"investFromBalance"}

\* ------------------------------------------------------------------------
\* POST /api/invest-from-balance
\* ------------------------------------------------------------------------
IfbStart(p, u, packageId, amount) ==
  /\ CanStart(p, "investFromBalance")
  /\ LET \* the handlers of the same account still at work when this one starts
         racing == {q \in Procs \ {p} :
                      /\ procs[q].op = "investFromBalance"
                      /\ procs[q].user = u
                      /\ procs[q].pc # "respond"}
         h == [op |-> "investFromBalance", pc |-> "readActive", result |-> "",
               user |-> u, packageId |-> packageId, amount |-> amount,
               existing |-> NULL, balance |-> 0, seen |-> 0, lastID |-> NULL,
               pre |-> DB, raced |-> racing # {}]
     IN procs' = [q \in Procs |->
          IF q \in racing THEN [procs[q] EXCEPT !.raced = TRUE]
          ELSE IF q # p THEN procs[q]
          ELSE IF packageId \notin DOMAIN Packages
            THEN [h EXCEPT !.pc = "respond", !.result = "PackageNotFound"]
          ELSE IF Abs(amount - Packages[packageId].amount) > Cent
            THEN [h EXCEPT !.pc = "respond", !.result = "AmountMismatch"]
          ELSE h]
  /\ TablesUnchanged
  /\ UNCHANGED <<today, cron, overlap>>

\* variant: the active investment is read but its level is not compared
IfbReadActive_anyLevel(p) ==
  /\ At(p, "investFromBalance", "readActive")
  /\ LET h == procs[p]
         act == ActiveIds(investments, h.user)
     IN \/ /\ act = {}
           /\ procs' = Goto(p, "readTx")
        \/ \E i \in act :
             procs' = [procs EXCEPT ![p] =
                         [h EXCEPT !.pc = "readTx", !.existing = i]]
  /\ TablesUnchanged
  /\ UNCHANGED <<today, cron, overlap>>

\* dbGet of the user's active investment and the same-level check
IfbReadActive(p) ==
  /\ At(p, "investFromBalance", "readActive")
  /\ LET h == procs[p]
         act == ActiveIds(investments, h.user)
     IN \/ /\ act = {}
           /\ procs' = Goto(p, "readTx")
        \/ \E i \in act :
             procs' = [procs EXCEPT ![p] =
               IF Packages[investments[i].package_id].level
                    = Packages[h.packageId].level
                 THEN [h EXCEPT !.pc = "respond", !.result = "SameLevel"]
                 ELSE [h EXCEPT !.pc = "readTx", !.existing = i]]
  /\ TablesUnchanged
  /\ UNCHANGED <<today, cron, overlap>>

\* variant: the balance is read but not compared with the amount
IfbReadTx_unchecked(p) ==
  /\ At(p, "investFromBalance", "readTx")
  /\ LET h == procs[p]
         bal == Balance(transactions, h.user)
     IN procs' = [procs EXCEPT ![p] =
          [h EXCEPT !.balance = bal, !.seen = seq.transactions,
                  !.pc = IF h.existing # NULL THEN "terminate" ELSE "insertInv"]]
  /\ TablesUnchanged
  /\ UNCHANGED <<today, cron, overlap>>

\* dbQuery of the user's transactions and the balance check
IfbReadTx(p) ==
  /\ At(p, "investFromBalance", "readTx")
  /\ LET h == procs[p]
         bal == Balance(transactions, h.user)
     IN procs' = [procs EXCEPT ![p] =
          IF bal < h.amount
            THEN [h EXCEPT !.pc = "respond", !.result = "InsufficientBalance",
                           !.balance = bal, !.seen = seq.transactions]
          ELSE [h EXCEPT !.balance = bal, !.seen = seq.transactions,
                  !.pc = IF h.existing # NULL THEN "terminate" ELSE "insertInv"]]
  /\ TablesUnchanged
  /\ UNCHANGED <<today, cron, overlap>>

\* variant: the existing investment is left as it is
IfbTerminate_skipped(p) ==
  /\ At(p, "investFromBalance", "terminate")
  /\ procs' = Goto(p, "insertInv")
  /\ TablesUnchanged
  /\ UNCHANGED <<today, cron, overlap>>

\* UPDATE investments SET status = 'terminated' WHERE id = existing
IfbTerminate(p) ==
  /\ At(p, "investFromBalance", "terminate")
  /\ LET h == procs[p]
     IN investments' =
          IF h.existing \in DOMAIN investments
            THEN [investments EXCEPT ![h.existing].status = "terminated"]
            ELSE investments
  /\ procs' = Goto(p, "insertInv")
  /\ UNCHANGED <<users, transactions, withdrawal_requests, seq, today, cron, overlap>>

\* INSERT INTO investments (... 'active', 'balance', 'BALANCE_INVESTMENT')
IfbInsertInv(p) ==
  /\ At(p, "investFromBalance", "insertInv")
  /\ seq.investments < MaxInv
  /\ LET h == procs[p]
         id == seq.investments + 1
     IN /\ investments' = investments @@
             (id :> [user_id |-> h.user, package_id |-> h.packageId,
                     deposit_amount |-> h.amount, total_accruals |-> 0,
                     status |-> "active", maturity_date |-> "9999-12-31",
                     transaction_txt |-> "BALANCE_INVESTMENT"])
        /\ seq' = [seq EXCEPT !.investments = id]
        /\ procs' = [procs EXCEPT ![p] =
                       [h EXCEPT !.pc = "insertTx", !.lastID = id]]
  /\ UNCHANGED <<users, transactions, withdrawal_requests, today, cron, overlap>>

\* INSERT INTO transactions (user, 'investment', -amount, lastID)
IfbInsertTx(p) ==
  /\ At(p, "investFromBalance", "insertTx")
  /\ seq.transactions < MaxTx
  /\ LET h == procs[p]
         id == seq.transactions + 1
     IN /\ transactions' = transactions @@
             (id :> [user_id |-> h.user, type |-> "investment",
                     amount |-> -h.amount, investment_id |-> h.lastID])
        /\ seq' = [seq EXCEPT !.transactions = id]
  /\ procs' = Goto(p, "updateLevel")
  /\ UNCHANGED <<users, investments, withdrawal_requests, today, cron, overlap>>

\* UPDATE users SET level = package level
IfbUpdateLevel(p) ==
  /\ At(p, "investFromBalance", "updateLevel")
  /\ LET h == procs[p]
     IN users' = IF h.user \in DOMAIN users
                   THEN [users EXCEPT ![h.user].level = Packages[h.packageId].level]
                   ELSE users
  /\ procs' = Reply(p, "ok")
  /\ UNCHANGED <<investments, transactions, withdrawal_requests, seq, today, cron, overlap>>

\* a dbRun of decideDeposit rejects (the statement is not executed): the
\* catch block answers 500 and nothing is undone
DdWriteFails(p) ==
  /\ procs[p].op = "decideDeposit"
  /\ procs[p].pc \in {"insertTx", "markCompleted", "markDenied"}
  /\ procs' = Reply(p, "Failed")
  /\ TablesUnchanged
  /\ UNCHANGED <<today, cron, overlap>>

\* a dbRun of decideWithdrawal rejects (the statement is not executed): the
\* catch block answers 500 and nothing is undone
DwWriteFails(p) ==
  /\ procs[p].op = "decideWithdrawal"
  /\ procs[p].pc \in {"updateRequest", "updateUser", "insertTx"}
  /\ procs' = Reply(p, "Failed")
  /\ TablesUnchanged
  /\ UNCHANGED <<today, cron, overlap>>

\* a dbRun of the handler rejects (the statement is not executed): the
\* catch block answers 500 and nothing is undone
IfbWriteFails(p) ==
  /\ procs[p].op = "investFromBalance"
  /\ procs[p].pc \in {"terminate", "insertInv", "insertTx", "updateLevel"}
  /\ procs' = Reply(p, "Failed")
  /\ TablesUnchanged
  /\ UNCHANGED <<today, cron, overlap>>

\* res.json(...) / res.status(...).json(...): the handler returns
Respond(p) ==
  /\ procs[p].op # "idle"
  /\ procs[p].pc = "respond"
  /\ procs' = [procs EXCEPT ![p] = Idle]
  /\ TablesUnchanged
  /\ UNCHANGED <<today, cron, overlap>>

\* ------------------------------------------------------------------------
\* POST /api/recharge  (deposit request)
\* ------------------------------------------------------------------------
RcStart(p, u, amount, txt) ==
  /\ CanStart(p, "recharge")
  /\ amount > 0
  /\ LET h == [op |-> "recharge", pc |-> "insert", result |-> "",
               user |-> u, amount |-> amount, txt |-> txt, lastID |-> NULL,
               pre |-> DB]
         dup == \E i \in DOMAIN investments :
                  /\ investments[i].transaction_txt = txt
                  /\ investments[i].user_id = u
     IN procs' = [procs EXCEPT ![p] =
          IF dup THEN [h EXCEPT !.pc = "respond", !.result = "AlreadyUsed"]
          ELSE h]
  /\ TablesUnchanged
  /\ UNCHANGED <<today, cron, overlap>>

\* INSERT INTO investments (... placeholder package, 'pending', txt)
RcInsert(p) ==
  /\ At(p, "recharge", "insert")
  /\ seq.investments < MaxInv
  /\ LET h == procs[p]
         id == seq.investments + 1
     IN /\ investments' = investments @@
             (id :> [user_id |-> h.user, package_id |-> 1,
                     deposit_amount |-> h.amount, total_accruals |-> 0,
                     status |-> "pending", maturity_date |-> "9999-12-31",
                     transaction_txt |-> h.txt])
        /\ seq' = [seq EXCEPT !.investments = id]
        /\ procs' = [procs EXCEPT ![p] =
                       [h EXCEPT !.pc = "respond", !.result = "ok", !.lastID = id]]
  /\ UNCHANGED <<users, transactions, withdrawal_requests, today, cron, overlap>>

\* ------------------------------------------------------------------------
\* PUT /api/admin/deposits/:id  (decideDeposit)
\* ------------------------------------------------------------------------
\* variant: the status of the deposit is not examined
DdStart_anyStatus(p, depositId, action) ==
  /\ CanStart(p, "decideDeposit")
  /\ LET h == [op |-> "decideDeposit", pc |-> "", result |-> "",
               id |-> depositId, action |-> action,
               user |-> NULL, amount |-> 0, pre |-> DB]
     IN procs' = [procs EXCEPT ![p] =
          IF depositId \notin DOMAIN investments
            THEN [h EXCEPT !.pc = "respond", !.result = "NotFound"]
          ELSE [h EXCEPT !.pc = IF action = "approve" THEN "insertTx"
                                ELSE "markDenied",
                         !.user = investments[depositId].user_id,
                         !.amount = investments[depositId].deposit_amount]]
  /\ TablesUnchanged
  /\ UNCHANGED <<today, cron, overlap>>

DdStart(p, depositId, action) ==
  /\ CanStart(p, "decideDeposit")
  /\ LET h == [op |-> "decideDeposit", pc |-> "", result |-> "",
               id |-> depositId, action |-> action,
               user |-> NULL, amount |-> 0, pre |-> DB]
     IN procs' = [procs EXCEPT ![p] =
          IF depositId \notin DOMAIN investments
            THEN [h EXCEPT !.pc = "respond", !.result = "NotFound"]
          ELSE IF investments[depositId].status # "pending"
            THEN [h EXCEPT !.pc = "respond", !.result = "AlreadyProcessed",
                           !.user = investments[depositId].user_id]
          ELSE [h EXCEPT !.pc = IF action = "approve" THEN "insertTx"
                                ELSE "markDenied",
                         !.user = investments[depositId].user_id,
                         !.amount = investments[depositId].deposit_amount]]
  /\ TablesUnchanged
  /\ UNCHANGED <<today, cron, overlap>>

\* INSERT INTO transactions (user, 'deposit', deposit_amount, depositId)
DdInsertTx(p) ==
  /\ At(p, "decideDeposit", "insertTx")
  /\ seq.transactions < MaxTx
  /\ LET h == procs[p]
         id == seq.transactions + 1
     IN /\ transactions' = transactions @@
             (id :> [user_id |-> h.user, type |-> "deposit",
                     amount |-> h.amount, investment_id |-> h.id])
        /\ seq' = [seq EXCEPT !.transactions = id]
  /\ procs' = Goto(p, "markCompleted")
  /\ UNCHANGED <<users, investments, withdrawal_requests, today, cron, overlap>>

\* UPDATE investments SET status = 'deposit_completed' WHERE id = depositId
DdMarkCompleted(p) ==
  /\ At(p, "decideDeposit", "markCompleted")
  /\ LET h == procs[p]
     IN investments' =
          IF h.id \in DOMAIN investments
            THEN [investments EXCEPT ![h.id].status = "deposit_completed"]
            ELSE investments
  /\ procs' = Reply(p, "ok")
  /\ UNCHANGED <<users, transactions, withdrawal_requests, seq, today, cron, overlap>>

\* variant: the denied amount is credited to the ledger
DdMarkDenied_credited(p) ==
  /\ At(p, "decideDeposit", "markDenied")
  /\ seq.transactions < MaxTx
  /\ LET h == procs[p]
         id == seq.transactions + 1
     IN /\ investments' =
             IF h.id \in DOMAIN investments
               THEN [investments EXCEPT ![h.id].status = "denied"]
               ELSE investments
        /\ transactions' = transactions @@
             (id :> [user_id |-> h.user, type |-> "deposit",
                     amount |-> h.amount, investment_id |-> h.id])
        /\ seq' = [seq EXCEPT !.transactions = id]
  /\ procs' = Reply(p, "ok")
  /\ UNCHANGED <<users, withdrawal_requests, today, cron, overlap>>

\* UPDATE investments SET status = 'denied' WHERE id = depositId
DdMarkDenied(p) ==
  /\ At(p, "decideDeposit", "markDenied")
  /\ LET h == procs[p]
     IN investments' =
          IF h.id \in DOMAIN investments
            THEN [investments EXCEPT ![h.id].status = "denied"]
            ELSE investments
  /\ procs' = Reply(p, "ok")
  /\ UNCHANGED <<users, transactions, withdrawal_requests, seq, today, cron, overlap>>

\* ------------------------------------------------------------------------
\* PUT /api/withdrawal-settings
\* ------------------------------------------------------------------------
SettingsInputs ==
  { [withdrawal_password |-> TRUE, withdrawal_wallet |-> "undefined"],
    [withdrawal_password |-> TRUE, withdrawal_wallet |-> "airtel"] }

WithdrawalSettings(u, body) ==
  /\ MayStart("withdrawalSettings")
  /\ u \in DOMAIN users
  /\ users' = [users EXCEPT ![u] =
       [@ EXCEPT !.withdrawal_password = body.withdrawal_password,
                 !.withdrawal_wallet =
                    IF body.withdrawal_wallet = "undefined" THEN @
                    ELSE body.withdrawal_wallet]]
  /\ users' # users
  /\ UNCHANGED <<investments, transactions, withdrawal_requests, seq, today,
                 procs, cron, overlap>>

\* ------------------------------------------------------------------------
\* POST /api/withdraw  (requestWithdrawal)
\* ------------------------------------------------------------------------
withdrawalCharge(withdrawalAmount) == (withdrawalAmount * ChargePercent) \div 100

netAmount(withdrawalAmount) == withdrawalAmount - withdrawalCharge(withdrawalAmount)

\* variant: the last withdrawal date is not compared with today
WdStart_anyDay(p, u, amount, investmentId) ==
  /\ CanStart(p, "withdraw")
  /\ u \in DOMAIN users
  /\ LET h == [op |-> "withdraw", pc |-> "check", result |-> "",
               user |-> u, amount |-> amount, investmentId |-> investmentId,
               wallet |-> users[u].withdrawal_wallet, lastID |-> NULL,
               balance |-> 0, seen |-> 0, pre |-> DB]
     IN procs' = [procs EXCEPT ![p] =
          IF amount < K(MinWithdrawal)
            THEN [h EXCEPT !.pc = "respond", !.result = "BelowMinimum"]
          ELSE IF ~users[u].withdrawal_password
            THEN [h EXCEPT !.pc = "respond", !.result = "PasswordNotSet"]
          ELSE IF users[u].withdrawal_wallet = "NULL"
            THEN [h EXCEPT !.pc = "respond", !.result = "WalletNotSet"]
          ELSE h]
  /\ TablesUnchanged
  /\ UNCHANGED <<today, cron, overlap>>

\* validation, dbGet of the user row, and the checks made on it
WdStart(p, u, amount, investmentId) ==
  /\ CanStart(p, "withdraw")
  /\ u \in DOMAIN users
  /\ LET h == [op |-> "withdraw", pc |-> "check", result |-> "",
               user |-> u, amount |-> amount, investmentId |-> investmentId,
               wallet |-> users[u].withdrawal_wallet, lastID |-> NULL,
               balance |-> 0, seen |-> 0, pre |-> DB]
     IN procs' = [procs EXCEPT ![p] =
          IF amount < K(MinWithdrawal)
            THEN [h EXCEPT !.pc = "respond", !.result = "BelowMinimum"]
          ELSE IF ~users[u].withdrawal_password
            THEN [h EXCEPT !.pc = "respond", !.result = "PasswordNotSet"]
          ELSE IF users[u].withdrawal_wallet = "NULL"
            THEN [h EXCEPT !.pc = "respond", !.result = "WalletNotSet"]
          ELSE IF users[u].last_withdrawal_date = today
            THEN [h EXCEPT !.pc = "respond", !.result = "AlreadyWithdrawnToday"]
          ELSE h]
  /\ TablesUnchanged
  /\ UNCHANGED <<today, cron, overlap>>

\* the investment branch or the standalone branch of the amount check
WdCheck(p) ==
  /\ At(p, "withdraw", "check")
  /\ LET h == procs[p]
     IN procs' = [procs EXCEPT ![p] =
          IF h.investmentId # NULL
            THEN IF ~(h.investmentId \in DOMAIN investments
                      /\ investments[h.investmentId].user_id = h.user)
                   THEN [h EXCEPT !.pc = "respond", !.result = "InvestmentNotFound"]
                 ELSE IF investments[h.investmentId].status = "withdrawn"
                   THEN [h EXCEPT !.pc = "respond", !.result = "AlreadyWithdrawn"]
                 ELSE IF h.amount > investments[h.investmentId].deposit_amount
                                    + investments[h.investmentId].total_accruals
                   THEN [h EXCEPT !.pc = "respond", !.result = "InsufficientBalance"]
                 ELSE [h EXCEPT !.pc = "insert"]
          ELSE IF h.amount > Balance(transactions, h.user)
            THEN [h EXCEPT !.pc = "respond", !.result = "InsufficientBalance",
                           !.balance = Balance(transactions, h.user),
                           !.seen = seq.transactions]
          ELSE [h EXCEPT !.pc = "insert",
                         !.balance = Balance(transactions, h.user),
                         !.seen = seq.transactions]]
  /\ TablesUnchanged
  /\ UNCHANGED <<today, cron, overlap>>

\* INSERT INTO withdrawal_requests (... 'pending')
\* (users.phone is NOT NULL, so phoneForWithdrawal is always set)
WdInsert(p) ==
  /\ At(p, "withdraw", "insert")
  /\ seq.withdrawal_requests < MaxReq
  /\ LET h == procs[p]
         id == seq.withdrawal_requests + 1
     IN /\ withdrawal_requests' = withdrawal_requests @@
             (id :> [user_id |-> h.user, investment_id |-> h.investmentId,
                     gross_amount |-> h.amount,
                     charge |-> withdrawalCharge(h.amount),
                     net_amount |-> netAmount(h.amount),
                     wallet |-> h.wallet, status |-> "pending"])
        /\ seq' = [seq EXCEPT !.withdrawal_requests = id]
        /\ procs' = [procs EXCEPT ![p] =
                       [h EXCEPT !.pc = "respond", !.result = "ok", !.lastID = id]]
  /\ UNCHANGED <<users, investments, transactions, today, cron, overlap>>

\* ------------------------------------------------------------------------
\* PUT /api/admin/withdrawal-requests/:id  (decideWithdrawal)
\* ------------------------------------------------------------------------
\* variant: the status of the request is not examined
DwStart_anyStatus(p, requestId, action) ==
  /\ CanStart(p, "decideWithdrawal")
  /\ LET h == [op |-> "decideWithdrawal", pc |-> "updateRequest", result |-> "",
               id |-> requestId, action |-> action, user |-> NULL,
               net_amount |-> 0, gross_amount |-> 0, investment_id |-> NULL,
               pre |-> DB]
     IN procs' = [procs EXCEPT ![p] =
          IF requestId \notin DOMAIN withdrawal_requests
            THEN [h EXCEPT !.pc = "respond", !.result = "NotFound"]
          ELSE [h EXCEPT !.user = withdrawal_requests[requestId].user_id,
                  !.net_amount = withdrawal_requests[requestId].net_amount,
                  !.gross_amount = withdrawal_requests[requestId].gross_amount,
                  !.investment_id = withdrawal_requests[requestId].investment_id]]
  /\ TablesUnchanged
  /\ UNCHANGED <<today, cron, overlap>>

DwStart(p, requestId, action) ==
  /\ CanStart(p, "decideWithdrawal")
  /\ LET h == [op |-> "decideWithdrawal", pc |-> "updateRequest", result |-> "",
               id |-> requestId, action |-> action, user |-> NULL,
               net_amount |-> 0, gross_amount |-> 0, investment_id |-> NULL,
               pre |-> DB]
     IN procs' = [procs EXCEPT ![p] =
          IF requestId \notin DOMAIN withdrawal_requests
            THEN [h EXCEPT !.pc = "respond", !.result = "NotFound"]
          ELSE IF withdrawal_requests[requestId].status # "pending"
            THEN [h EXCEPT !.pc = "respond", !.result = "NotPending",
                           !.user = withdrawal_requests[requestId].user_id]
          ELSE [h EXCEPT !.user = withdrawal_requests[requestId].user_id,
                  !.net_amount = withdrawal_requests[requestId].net_amount,
                  !.gross_amount = withdrawal_requests[requestId].gross_amount,
                  !.investment_id = withdrawal_requests[requestId].investment_id]]
  /\ TablesUnchanged
  /\ UNCHANGED <<today, cron, overlap>>

\* variant: the user row and the ledger are written for a denial as well
DwUpdateRequest_anyAction(p) ==
  /\ At(p, "decideWithdrawal", "updateRequest")
  /\ LET h == procs[p]
         newStatus == IF h.action = "approve" THEN "paid" ELSE "denied"
     IN /\ withdrawal_requests' =
             IF h.id \in DOMAIN withdrawal_requests
               THEN [withdrawal_requests EXCEPT ![h.id].status = newStatus]
               ELSE withdrawal_requests
        /\ procs' = Goto(p, "updateUser")
  /\ UNCHANGED <<users, investments, transactions, seq, today, cron, overlap>>

\* UPDATE withdrawal_requests SET status = newStatus WHERE id = requestId
DwUpdateRequest(p) ==
  /\ At(p, "decideWithdrawal", "updateRequest")
  /\ LET h == procs[p]
         newStatus == IF h.action = "approve" THEN "paid" ELSE "denied"
     IN /\ withdrawal_requests' =
             IF h.id \in DOMAIN withdrawal_requests
               THEN [withdrawal_requests EXCEPT ![h.id].status = newStatus]
               ELSE withdrawal_requests
        /\ procs' = IF h.action = "approve" THEN Goto(p, "updateUser")
                    ELSE Reply(p, "ok")
  /\ UNCHANGED <<users, investments, transactions, seq, today, cron, overlap>>

\* UPDATE users SET last_withdrawal_date = date('now')
DwUpdateUser(p) ==
  /\ At(p, "decideWithdrawal", "updateUser")
  /\ LET h == procs[p]
     IN users' = IF h.user \in DOMAIN users
                   THEN [users EXCEPT ![h.user].last_withdrawal_date = today]
                   ELSE users
  /\ procs' = Goto(p, "insertTx")
  /\ UNCHANGED <<investments, transactions, withdrawal_requests, seq, today,
                 cron, overlap>>

\* INSERT INTO transactions (user, 'withdrawal', net_amount, investment_id)
DwInsertTx(p) ==
  /\ At(p, "decideWithdrawal", "insertTx")
  /\ seq.transactions < MaxTx
  /\ LET h == procs[p]
         id == seq.transactions + 1
     IN /\ transactions' = transactions @@
             (id :> [user_id |-> h.user, type |-> "withdrawal",
                     amount |-> h.net_amount, investment_id |-> h.investment_id])
        /\ seq' = [seq EXCEPT !.transactions = id]
  /\ procs' = Reply(p, "ok")
  /\ UNCHANGED <<users, investments, withdrawal_requests, today, cron, overlap>>

\* ------------------------------------------------------------------------
\* Handlers that open an active investment against an external payment
\* ------------------------------------------------------------------------
\* INSERT INTO investments (... 'active' ...) followed by
\* INSERT INTO transactions (user, 'deposit', amount, lastID)
CreatePaidInvestment(u, packageId, amount, txt) ==
  /\ seq.investments < MaxInv
  /\ seq.transactions < MaxTx
  /\ LET id == seq.investments + 1
         tid == seq.transactions + 1
     IN /\ investments' = investments @@
             (id :> [user_id |-> u, package_id |-> packageId,
                     deposit_amount |-> amount, total_accruals |-> 0,
                     status |-> "active", maturity_date |-> "start+26",
                     transaction_txt |-> txt])
        /\ transactions' = transactions @@
             (tid :> [user_id |-> u, type |-> "deposit", amount |-> amount,
                      investment_id |-> id])
        /\ seq' = [seq EXCEPT !.investments = id, !.transactions = tid]
  /\ UNCHANGED <<users, withdrawal_requests, today, procs, cron, overlap>>

RefInputs == {"MOCK_0001"}

\* POST /api/invest
Invest(u, packageId, amount, paymentReference, paymentSuccess) ==
  /\ MayStart("invest")
  /\ paymentReference = "MOCK_0001" \/ paymentSuccess
  /\ packageId \in DOMAIN Packages
  /\ Abs(amount - Packages[packageId].amount) <= Cent
  /\ CreatePaidInvestment(u, packageId, amount,
        IF paymentReference = "MOCK_0001" THEN paymentReference ELSE "NULL")

\* POST /api/verify-transaction
VerifyTransaction(u, packageId, amount, transactionTxt) ==
  /\ MayStart("verifyTransaction")
  /\ packageId \in DOMAIN Packages
  /\ Abs(amount - Packages[packageId].amount) <= Cent
  /\ ~\E i \in DOMAIN investments :
        /\ investments[i].transaction_txt = transactionTxt
        /\ investments[i].user_id = u
  /\ CreatePaidInvestment(u, packageId, amount, transactionTxt)

\* POST /api/paystack/webhook  (charge.success with verified metadata)
PaystackWebhook(u, packageId, amount) ==
  /\ MayStart("webhook")
  /\ ~\E i \in DOMAIN investments :
        /\ investments[i].user_id = u
        /\ investments[i].package_id = packageId
        /\ investments[i].deposit_amount = amount
  /\ CreatePaidInvestment(u, packageId, amount, "NULL")

\* ------------------------------------------------------------------------
\* PUT /api/admin/investments/:id
\* ------------------------------------------------------------------------
AdminUpdateInvestment(id, status) ==
  /\ MayStart("adminUpdateInvestment")
  /\ status \in {"active", "matured", "withdrawn"}
  /\ id \in DOMAIN investments
  /\ investments' = [investments EXCEPT ![id].status = status]
  /\ investments' # investments
  /\ UNCHANGED <<users, transactions, withdrawal_requests, seq, today, procs,
                 cron, overlap>>

\* ------------------------------------------------------------------------
\* POST /api/admin/users/:userId/reset-investments
\* ------------------------------------------------------------------------
\* DELETE FROM transactions WHERE investment_id IN (the user's investments);
\* DELETE FROM transactions WHERE user_id = ? AND type = 'investment';
\* DELETE FROM investments WHERE user_id = ?;  UPDATE users SET level = 'L0'
ResetInvestments(u) ==
  /\ MayStart("resetInvestments")
  /\ u \in DOMAIN users
  /\ LET investmentIds == {i \in DOMAIN investments : investments[i].user_id = u}
         kept == {t \in DOMAIN transactions :
                    /\ transactions[t].investment_id \notin investmentIds
                    /\ ~(transactions[t].user_id = u
                         /\ transactions[t].type = "investment")}
     IN /\ transactions' = [t \in kept |-> transactions[t]]
        /\ investments' =
             [i \in DOMAIN investments \ investmentIds |-> investments[i]]
        /\ users' = [users EXCEPT ![u].level = "L0"]
  /\ UNCHANGED <<withdrawal_requests, seq, today, procs, cron, overlap>>

\* ------------------------------------------------------------------------
\* POST /api/admin/bonus
\* ------------------------------------------------------------------------
BonusAmountInputs == {K(50)}

AdminBonus(u, amount) ==
  /\ MayStart("adminBonus")
  /\ u \in DOMAIN users
  /\ amount >= Cent
  /\ seq.transactions < MaxTx
  /\ LET act == ActiveIds(investments, u)
         tid == seq.transactions + 1
     IN \/ /\ act = {}
           /\ transactions' = transactions @@
                (tid :> [user_id |-> u, type |-> "bonus", amount |-> amount,
                         investment_id |-> NULL])
           /\ UNCHANGED investments
        \/ \E i \in act :
           /\ investments' = [investments EXCEPT ![i].total_accruals = @ + amount]
           /\ transactions' = transactions @@
                (tid :> [user_id |-> u, type |-> "bonus", amount |-> amount,
                         investment_id |-> i])
  /\ seq' = [seq EXCEPT !.transactions = @ + 1]
  /\ UNCHANGED <<users, withdrawal_requests, today, procs, cron, overlap>>

\* ------------------------------------------------------------------------
\* GET /api/dashboard and the balance the page derives from its answer
\* ------------------------------------------------------------------------
DashboardLimit == 50

\* the first n elements of a sequence
FirstRows(s, n) == SubSeq(s, 1, IF Len(s) < n THEN Len(s) ELSE n)

\* the elements of a sequence, last first
LatestFirst(s) == [k \in 1..Len(s) |-> s[Len(s) + 1 - k]]

\* SELECT * FROM transactions WHERE user_id = ? ORDER BY date DESC LIMIT 50
\* (the date of an entry is the time of its insertion)
dashboardTransactions(txs, u) ==
  FirstRows(LatestFirst(UserTransactions(txs, u)), DashboardLimit)

\* loadMeSection: the balance computed from the transactions of the answer
currentBalance(rows) ==
  totalDeposits(rows) + allAccrualsAndBonuses(rows)
    - totalWithdrawn(rows) - investmentsFromBalance(rows)

DashStart(p, u) ==
  /\ CanStart(p, "dashboard")
  /\ procs' = [procs EXCEPT ![p] =
       [op |-> "dashboard", pc |-> "query", result |-> "", user |-> u,
        transactions |-> <<>>, pre |-> DB]]
  /\ TablesUnchanged
  /\ UNCHANGED <<today, cron, overlap>>

\* res.json({investments, transactions})
DashQuery(p) ==
  /\ At(p, "dashboard", "query")
  /\ procs' = [procs EXCEPT ![p] =
       [@ EXCEPT !.pc = "respond", !.result = "ok",
                 !.transactions = dashboardTransactions(transactions,
                                                        procs[p].user)]]
  /\ TablesUnchanged
  /\ UNCHANGED <<today, cron, overlap>>

\* ------------------------------------------------------------------------
\* PUT /api/profile
\* ------------------------------------------------------------------------
LevelInputs == {"L1", "L2"}

\* UPDATE users SET level = ? WHERE id = userId, with the level of the body
UpdateProfile(u, level) ==
  /\ MayStart("updateProfile")
  /\ level \in {"L1", "L2", "L3", "L4", "L5", "L6", "L7", "L8", "L9", "L10"}
  /\ users' = IF u \in DOMAIN users
                THEN [users EXCEPT ![u].level = level]
                ELSE users
  /\ UNCHANGED <<investments, transactions, withdrawal_requests, seq, today,
                 procs, cron, overlap>>

\* ------------------------------------------------------------------------
\* cron.schedule('0 0 * * *'): the daily accrual job
\* ------------------------------------------------------------------------
dailyAccrual(investment) ==
  LET p == Packages[investment.package_id]
  IN (investment.deposit_amount * (p.daily_income \div Kwacha))
        \div (p.amount \div Kwacha)

\* SELECT i.*, p.daily_rate FROM investments i JOIN packages p
\*   WHERE i.status = 'active'
CronStart ==
  /\ cron.pc = "idle"
  /\ cron.runs < MaxAccrualRuns
  /\ MayStart("accrual")
  /\ LET rows == SelectSeq(
           [i \in 1..MaxInv + 1 |->
              IF i \in DOMAIN investments
                THEN [id |-> i, user_id |-> investments[i].user_id,
                      status |-> investments[i].status,
                      dailyAccrual |-> dailyAccrual(investments[i])]
                ELSE [id |-> i, user_id |-> NULL, status |-> "none",
                      dailyAccrual |-> 0]],
           LAMBDA r : r.status = "active")
     IN cron' = [cron EXCEPT !.queue = rows, !.runs = @ + 1, !.pre = DB,
                             !.pc = IF rows = <<>> THEN "done" ELSE "update"]
  /\ TablesUnchanged
  /\ UNCHANGED <<today, procs, overlap>>

\* variant: the investment is closed once it has been credited
CronUpdate_matures ==
  /\ cron.pc = "update"
  /\ LET r == Head(cron.queue)
     IN investments' =
          IF r.id \in DOMAIN investments
            THEN [investments EXCEPT ![r.id].total_accruals = @ + r.dailyAccrual,
                                     ![r.id].status = "matured"]
            ELSE investments
  /\ cron' = [cron EXCEPT !.pc = "insert"]
  /\ UNCHANGED <<users, transactions, withdrawal_requests, seq, today, procs,
                 overlap>>

\* UPDATE investments SET total_accruals = total_accruals + dailyAccrual
CronUpdate ==
  /\ cron.pc = "update"
  /\ LET r == Head(cron.queue)
     IN investments' =
          IF r.id \in DOMAIN investments
            THEN [investments EXCEPT ![r.id].total_accruals = @ + r.dailyAccrual]
            ELSE investments
  /\ cron' = [cron EXCEPT !.pc = "insert"]
  /\ UNCHANGED <<users, transactions, withdrawal_requests, seq, today, procs,
                 overlap>>

\* INSERT INTO transactions (user, 'accrual', dailyAccrual, investment.id)
CronInsert ==
  /\ cron.pc = "insert"
  /\ seq.transactions < MaxTx
  /\ LET r == Head(cron.queue)
         tid == seq.transactions + 1
     IN /\ transactions' = transactions @@
             (tid :> [user_id |-> r.user_id, type |-> "accrual",
                      amount |-> r.dailyAccrual, investment_id |-> r.id])
        /\ seq' = [seq EXCEPT !.transactions = tid]
        /\ cron' = [cron EXCEPT !.queue = Tail(@),
                       !.pc = IF Tail(cron.queue) = <<>> THEN "done" ELSE "update"]
  /\ UNCHANGED <<users, investments, withdrawal_requests, today, procs, overlap>>

\* console.log('Processed ...') or, after a rejected write, the catch block:
\* the callback returns
CronFinish ==
  /\ cron.pc = "done"
  /\ cron' = [cron EXCEPT !.pc = "idle", !.queue = <<>>, !.pre = <<>>]
  /\ TablesUnchanged
  /\ UNCHANGED <<today, procs, overlap>>

\* a dbRun of the callback rejects (the statement is not executed): the
\* catch block logs the error, the rest of the loop is abandoned and nothing
\* is undone
CronWriteFails ==
  /\ cron.pc \in {"update", "insert"}
  /\ cron' = [cron EXCEPT !.pc = "done"]
  /\ TablesUnchanged
  /\ UNCHANGED <<today, procs, overlap>>

\* ------------------------------------------------------------------------
\* Midnight: the calendar day advances
\* ------------------------------------------------------------------------
\* (the day changes between two requests)
NextDay ==
  /\ today < MaxDay
  /\ InFlight = {} /\ cron.pc = "idle"
  /\ today' = today + 1
  /\ TablesUnchanged
  /\ UNCHANGED <<procs, cron, overlap>>

\* ------------------------------------------------------------------------
\* Next-state relations
\* ------------------------------------------------------------------------
InvestFromBalance ==
  \/ \E p \in Procs, u \in Users, k \in PackageIdInputs, a \in InvestAmountInputs :
       IfbStart(p, u, k, a)
  \/ \E p \in Procs : IfbReadActive(p)
  \/ \E p \in Procs : IfbReadTx(p)
  \/ \E p \in Procs : IfbTerminate(p)
  \/ \E p \in Procs : IfbInsertInv(p)
  \/ \E p \in Procs : IfbInsertTx(p)
  \/ \E p \in Procs : IfbUpdateLevel(p)

Recharge ==
  \/ \E p \in Procs, u \in Users, a \in DepositAmountInputs, t \in TxtInputs :
       RcStart(p, u, a, t)
  \/ \E p \in Procs : RcInsert(p)

DecideDeposit ==
  \/ \E p \in Procs, i \in 1..MaxInv, a \in {"approve", "deny"} : DdStart(p, i, a)
  \/ \E p \in Procs : DdInsertTx(p)
  \/ \E p \in Procs : DdMarkCompleted(p)
  \/ \E p \in Procs : DdMarkDenied(p)

Withdraw ==
  \/ \E p \in Procs, u \in Users, a \in WithdrawAmountInputs, i \in InvestmentIdInputs :
       WdStart(p, u, a, i)
  \/ \E p \in Procs : WdCheck(p)
  \/ \E p \in Procs : WdInsert(p)

DecideWithdrawal ==
  \/ \E p \in Procs, i \in 1..MaxReq, a \in {"approve", "deny"} : DwStart(p, i, a)
  \/ \E p \in Procs : DwUpdateRequest(p)
  \/ \E p \in Procs : DwUpdateUser(p)
  \/ \E p \in Procs : DwInsertTx(p)

\* withdrawal requests that name no investment
WithdrawFromBalance ==
  \/ \E p \in Procs, u \in Users, a \in WithdrawAmountInputs :
       WdStart(p, u, a, NULL)
  \/ \E p \in Procs : WdCheck(p)
  \/ \E p \in Procs : WdInsert(p)

\* the operator approves withdrawal requests
ApproveWithdrawal ==
  \/ \E p \in Procs, i \in 1..MaxReq : DwStart(p, i, "approve")
  \/ \E p \in Procs : DwUpdateRequest(p)
  \/ \E p \in Procs : DwUpdateUser(p)
  \/ \E p \in Procs : DwInsertTx(p)

\* withdrawal requests for amounts of kwacha and ngwee just above the minimum
ChargeAmountInputs ==
  {K(MinWithdrawal), K(MinWithdrawal) + Cent, K(MinWithdrawal) + 4 * Cent,
   K(MinWithdrawal) + 25 * Cent}

WithdrawNgwee ==
  \/ \E p \in Procs, u \in Users, a \in ChargeAmountInputs :
       WdStart(p, u, a, NULL)
  \/ \E p \in Procs : WdCheck(p)
  \/ \E p \in Procs : WdInsert(p)

Dashboard ==
  \/ \E p \in Procs, u \in Users : DashStart(p, u)
  \/ \E p \in Procs : DashQuery(p)

Profile == \E u \in Users, l \in LevelInputs : UpdateProfile(u, l)

PaidInvestment ==
  \/ \E u \in Users, k \in PackageIdInputs, a \in InvestAmountInputs,
        r \in RefInputs, ok \in BOOLEAN : Invest(u, k, a, r, ok)
  \/ \E u \in Users, k \in PackageIdInputs, a \in InvestAmountInputs,
        t \in TxtInputs : VerifyTransaction(u, k, a, t)
  \/ \E u \in Users, k \in DOMAIN Packages : PaystackWebhook(u, k, Packages[k].amount)

StatusUpdate == \E i \in 1..MaxInv, s \in StatusInputs : AdminUpdateInvestment(i, s)

Bonus == \E u \in Users, a \in BonusAmountInputs : AdminBonus(u, a)

Reset == \E u \in Users : ResetInvestments(u)

StorageFailure == \E p \in Procs : IfbWriteFails(p)

DepositFailure == \E p \in Procs : DdWriteFails(p)

PayoutFailure == \E p \in Procs : DwWriteFails(p)

Accrual == CronStart \/ CronUpdate \/ CronInsert \/ CronFinish

AccrualFailure == CronWriteFails

Settings == \E u \in Users, b \in SettingsInputs : WithdrawalSettings(u, b)

Responses == \E p \in Procs : Respond(p)

\* The requests of the users and the decisions of the operator, over
\* several calendar days: deposits, level switches and withdrawals.
Next ==
  \/ Recharge
  \/ DecideDeposit
  \/ InvestFromBalance
  \/ Settings
  \/ Withdraw
  \/ DecideWithdrawal
  \/ NextDay
  \/ Responses

Spec == Init /\ [][Next]_vars

\* The investment slots: every handler that creates a slot or changes the
\* status of one.
NextSlots ==
  \/ Recharge
  \/ DecideDeposit
  \/ InvestFromBalance
  \/ PaidInvestment
  \/ StatusUpdate
  \/ Responses

SpecSlots == Init /\ [][NextSlots]_vars

\* The ledger: every kind of entry is appended (deposit, investment debit,
\* accrual, bonus, paid withdrawal), on one calendar day.
NextLedger ==
  \/ Recharge
  \/ DecideDeposit
  \/ InvestFromBalance
  \/ Settings
  \/ WithdrawFromBalance
  \/ ApproveWithdrawal
  \/ Accrual
  \/ Bonus
  \/ Responses

SpecLedger == Init /\ [][NextLedger]_vars

\* Level switches that overlap: a funded account and two invest-from-balance
\* requests in flight together.
NextSwitch ==
  \/ Recharge
  \/ DecideDeposit
  \/ InvestFromBalance
  \/ Responses

SpecSwitch == InitSwitch /\ [][NextSwitch]_vars

\* The withdrawal charge: a funded account requests withdrawals of amounts
\* with ngwee.
NextCharge ==
  \/ Recharge
  \/ DecideDeposit
  \/ Settings
  \/ WithdrawNgwee
  \/ Responses

SpecCharge == Init /\ [][NextCharge]_vars

\* The operator's reset of an account that has deposited and invested.
NextReset ==
  \/ Recharge
  \/ DecideDeposit
  \/ InvestFromBalance
  \/ Reset
  \/ Responses

SpecReset == Init /\ [][NextReset]_vars

\* Level switches on a storage whose writes may fail.
NextFailure ==
  \/ Recharge
  \/ DecideDeposit
  \/ InvestFromBalance
  \/ StorageFailure
  \/ Responses

SpecFailure == Init /\ [][NextFailure]_vars

\* ------------------------------------------------------------------------
\* Properties
\* ------------------------------------------------------------------------

\* Decisions on deposit requests that overlap, on a storage whose writes
\* may fail.
NextDeposits ==
  \/ Recharge
  \/ DecideDeposit
  \/ DepositFailure
  \/ InvestFromBalance
  \/ Responses

SpecDeposits == InitDeposits /\ [][NextDeposits]_vars

\* Approvals of withdrawal requests that overlap, on a storage whose writes
\* may fail.
NextPayouts ==
  \/ Recharge
  \/ DecideDeposit
  \/ Settings
  \/ WithdrawFromBalance
  \/ ApproveWithdrawal
  \/ PayoutFailure
  \/ Responses

SpecPayouts == InitPayouts /\ [][NextPayouts]_vars

\* The accrual job over several days, on investments that are opened,
\* switched and set to another status by the operator.
NextAccrual ==
  \/ Recharge
  \/ DecideDeposit
  \/ InvestFromBalance
  \/ StatusUpdate
  \/ Accrual
  \/ NextDay
  \/ Responses

SpecAccrual == Init /\ [][NextAccrual]_vars

\* The accrual job on a storage whose writes may fail.
NextAccrualFailure ==
  \/ PaidInvestment
  \/ Accrual
  \/ AccrualFailure

SpecAccrualFailure == Init /\ [][NextAccrualFailure]_vars

\* A run of the accrual job that overlaps a level switch.
NextRace ==
  \/ Recharge
  \/ DecideDeposit
  \/ InvestFromBalance
  \/ Accrual
  \/ Responses

SpecRace == InitRace /\ [][NextRace]_vars

\* The level of the account: deposits, level switches and the user's own
\* profile updates.
NextProfile ==
  \/ Recharge
  \/ DecideDeposit
  \/ InvestFromBalance
  \/ Profile
  \/ Responses

SpecProfile == Init /\ [][NextProfile]_vars

\* Deposit requests that overlap.
NextRecharge ==
  \/ Recharge
  \/ DecideDeposit
  \/ InvestFromBalance
  \/ Responses

SpecRecharge == InitRecharge /\ [][NextRecharge]_vars

\* The dashboard of accounts with ledgers of every length up to MaxHistory
\* days of accrual, and further deposits.
NextDashboard ==
  \/ Recharge
  \/ DecideDeposit
  \/ Dashboard
  \/ Responses

SpecDashboard == InitDashboard /\ [][NextDashboard]_vars

\* C1: in every reachable state every account has at most one investment
\* whose status is 'active'.
AtMostOneActiveSlot ==
  \A u \in Users : Cardinality(ActiveIds(investments, u)) <= 1

\* a handler that has done its work and is about to send its response
Done(p, o) == At(p, o, "respond")

Succeeded(p, o) == Done(p, o) /\ procs[p].result = "ok"

\* no handler and no accrual run is in flight
Quiescent == InFlight = {} /\ cron.pc = "idle"

\* C2: two invest-from-balance requests of one account that were in flight
\* together never both succeed, and when both have done their work the
\* account has exactly one active investment if either of them succeeded.
ConcurrentSwitchesNeverBothSucceed ==
  \A p, q \in Procs :
    ( /\ p # q
      /\ Done(p, "investFromBalance") /\ Done(q, "investFromBalance")
      /\ procs[p].user = procs[q].user
      /\ procs[p].raced /\ procs[q].raced )
    => /\ ~(procs[p].result = "ok" /\ procs[q].result = "ok")
       /\ (procs[p].result = "ok" \/ procs[q].result = "ok")
            => Cardinality(ActiveIds(investments, procs[p].user)) = 1

\* C3: whenever no request is in flight, the balance of every account is
\* zero or more.
BalanceNeverNegative ==
  Quiescent => \A u \in Users : Balance(transactions, u) >= 0

\* C4: when the approval of a withdrawal request has succeeded, the balance
\* of the account is lower than before the call by exactly the gross amount
\* of the request, the request is paid, and the account's last withdrawal
\* date is today.
ApprovalDebitsGross ==
  \A p \in Procs :
    (Succeeded(p, "decideWithdrawal") /\ procs[p].action = "approve")
    => LET h == procs[p]
       IN /\ Balance(h.pre.transactions, h.user) - Balance(transactions, h.user)
               = h.gross_amount
          /\ withdrawal_requests[h.id].status = "paid"
          /\ users[h.user].last_withdrawal_date = today

\* the rows that recharge creates: far-future maturity date and the user's
\* transaction text
IsDepositRequest(row) ==
  row.maturity_date = "9999-12-31" /\ row.transaction_txt # "BALANCE_INVESTMENT"

\* the deposit entries of the ledger that are linked to deposit request id
DepositEntries(txs, id) ==
  {t \in DOMAIN txs : txs[t].type = "deposit" /\ txs[t].investment_id = id}

\* a decision on a deposit request that an earlier call had already decided
SecondDecision(p) ==
  /\ Done(p, "decideDeposit")
  /\ procs[p].id \in DOMAIN procs[p].pre.investments
  /\ IsDepositRequest(procs[p].pre.investments[procs[p].id])
  /\ procs[p].pre.investments[procs[p].id].status # "pending"

\* C5 (as stated): a second decision on a deposit request fails with
\* AlreadyProcessed and changes nothing, and the request has exactly one
\* deposit entry in the ledger whatever the two decisions were.
SecondDecisionLeavesOneEntry ==
  \A p \in Procs :
    SecondDecision(p)
    => /\ procs[p].result = "AlreadyProcessed"
       /\ DB = procs[p].pre
       /\ Cardinality(DepositEntries(transactions, procs[p].id)) = 1

\* C5 (amended): a second decision on a deposit request fails with
\* AlreadyProcessed and changes nothing; the request has exactly one deposit
\* entry in the ledger if the first decision approved it and none if the
\* first decision denied it.
SecondDecisionChangesNothing ==
  \A p \in Procs :
    SecondDecision(p)
    => /\ procs[p].result = "AlreadyProcessed"
       /\ DB = procs[p].pre
       /\ Cardinality(DepositEntries(transactions, procs[p].id))
            = IF investments[procs[p].id].status = "deposit_completed"
                THEN 1 ELSE 0

\* a second approval of a deposit request that was approved before
SecondApprovalReached ==
  \E p \in Procs :
    /\ SecondDecision(p)
    /\ procs[p].action = "approve"
    /\ procs[p].pre.investments[procs[p].id].status = "deposit_completed"

\* the contribution of one ledger entry to the balance
Signed(t) ==
  CASE t.type = "deposit" -> t.amount
    [] t.type = "accrual" -> t.amount
    [] t.type = "bonus" -> t.amount
    [] t.type = "withdrawal" -> -t.amount
    [] t.type = "investment" -> -Abs(t.amount)
    [] OTHER -> 0

RECURSIVE SignedSum(_, _)
SignedSum(txs, ids) ==
  IF ids = {} THEN 0
  ELSE LET t == CHOOSE x \in ids : TRUE
       IN Signed(txs[t]) + SignedSum(txs, ids \ {t})

\* the handler has just read the ledger and computed the balance from it
JustReadBalance(p) ==
  \/ /\ procs[p].op = "investFromBalance"
     /\ \/ procs[p].pc \in {"terminate", "insertInv"}
        \/ procs[p].pc = "respond" /\ procs[p].result = "InsufficientBalance"
  \/ /\ procs[p].op = "withdraw"
     /\ procs[p].investmentId = NULL
     /\ \/ procs[p].pc = "insert"
        \/ procs[p].pc = "respond" /\ procs[p].result = "InsufficientBalance"

\* the ids of the ledger entries of the handler's account that it has read
SeenIds(p) ==
  {t \in DOMAIN transactions :
     t <= procs[p].seen /\ transactions[t].user_id = procs[p].user}

\* the entries read by the handler, in the order they were returned
SeenRows(p) ==
  UserTransactions([t \in SeenIds(p) |-> transactions[t]], procs[p].user)

Reordered(rows, f) == [i \in 1..Len(rows) |-> rows[f[i]]]

SwitchDone(p) ==
  /\ Succeeded(p, "investFromBalance")
  /\ Cardinality(ActiveIds(procs[p].pre.investments, procs[p].user)) <= 1

SameTierCall(p) ==
  /\ Done(p, "investFromBalance")
  /\ procs[p].packageId \in DOMAIN Packages
  /\ procs[p].amount = Packages[procs[p].packageId].amount
  /\ \E i \in DOMAIN procs[p].pre.investments :
       /\ ActiveIds(procs[p].pre.investments, procs[p].user) = {i}
       /\ Packages[procs[p].pre.investments[i].package_id].level
            = Packages[procs[p].packageId].level

\* C8: invest-from-balance for the tier the account's active investment is
\* already at fails with SameLevel and changes nothing.
SameLevelRejected ==
  \A p \in Procs :
    SameTierCall(p) => procs[p].result = "SameLevel" /\ DB = procs[p].pre

SameTierCallReached == \E p \in Procs : SameTierCall(p)

\* C9: a withdrawal request whose gross amount is above the balance of the
\* account fails and creates no request, whether or not it names an
\* investment.
OverdrawingRequestFails ==
  \A p \in Procs :
    ( /\ Done(p, "withdraw")
      /\ procs[p].amount > Balance(procs[p].pre.transactions, procs[p].user) )
    => /\ procs[p].result # "ok"
       /\ withdrawal_requests = procs[p].pre.withdrawal_requests

\* C10: a withdrawal request fails and creates no request when its gross
\* amount is below 50, when the account has no destination wallet, or when
\* the account's last withdrawal date is today; a request that succeeds
\* creates exactly one pending request, appends no ledger entry and leaves
\* the balance unchanged.
RequestWithdrawalContract ==
  \A p \in Procs :
    Done(p, "withdraw")
    => LET h == procs[p]
           account == h.pre.users[h.user]
       IN /\ ( \/ h.amount < K(MinWithdrawal)
               \/ account.withdrawal_wallet = "NULL"
               \/ account.last_withdrawal_date = today )
             => h.result # "ok" /\ DB = h.pre
          /\ h.result # "ok" => DB = h.pre
          /\ h.result = "ok"
             => /\ h.lastID \notin DOMAIN h.pre.withdrawal_requests
                /\ DOMAIN withdrawal_requests
                     = DOMAIN h.pre.withdrawal_requests \cup {h.lastID}
                /\ \A r \in DOMAIN h.pre.withdrawal_requests :
                     withdrawal_requests[r] = h.pre.withdrawal_requests[r]
                /\ withdrawal_requests[h.lastID].status = "pending"
                /\ withdrawal_requests[h.lastID].user_id = h.user
                /\ withdrawal_requests[h.lastID].gross_amount = h.amount
                /\ transactions = h.pre.transactions
                /\ Balance(transactions, h.user)
                     = Balance(h.pre.transactions, h.user)
                /\ users = h.pre.users /\ investments = h.pre.investments

\* a withdrawal request that succeeded on an account that holds a balance
WithdrawalRequested ==
  \E p \in Procs :
    /\ Succeeded(p, "withdraw")
    /\ procs[p].investmentId = NULL
    /\ Balance(transactions, procs[p].user) >= procs[p].amount

\* the approval of a withdrawal request has succeeded
ApprovalDone(p) ==
  Succeeded(p, "decideWithdrawal") /\ procs[p].action = "approve"

\* C11: on every calendar day at most one withdrawal request of an account
\* becomes paid: no approval succeeds on a day on which a request of the
\* account was paid already (the account's last withdrawal date, written by
\* every approval, was that day before the call).
OnePaidWithdrawalPerDay ==
  \A p \in Procs :
    ApprovalDone(p)
    => procs[p].pre.users[procs[p].user].last_withdrawal_date # today

\* the withdrawal entries of account u in the ledger
WithdrawalEntries(txs, u) ==
  {t \in DOMAIN txs : txs[t].type = "withdrawal" /\ txs[t].user_id = u}

\* the paid requests of account u
PaidRequests(reqs, u) ==
  {r \in DOMAIN reqs : reqs[r].user_id = u /\ reqs[r].status = "paid"}

\* a decision on a withdrawal request that was paid or denied before the call
TerminalDecision(p) ==
  /\ Done(p, "decideWithdrawal")
  /\ procs[p].id \in DOMAIN procs[p].pre.withdrawal_requests
  /\ procs[p].pre.withdrawal_requests[procs[p].id].status \in {"paid", "denied"}

\* C12: approve or deny on a withdrawal request that is already paid or
\* denied fails with NotPending and changes nothing, so that a request
\* approved twice has one withdrawal entry in the ledger: the account has
\* as many withdrawal entries as paid requests.
TerminalRequestRejected ==
  \A p \in Procs :
    TerminalDecision(p)
    => /\ procs[p].result = "NotPending"
       /\ DB = procs[p].pre
       /\ Cardinality(WithdrawalEntries(transactions, procs[p].user))
            = Cardinality(PaidRequests(withdrawal_requests, procs[p].user))

\* a second approval of a request that is already paid
SecondWithdrawalApprovalReached ==
  \E p \in Procs :
    /\ TerminalDecision(p)
    /\ procs[p].action = "approve"
    /\ procs[p].pre.withdrawal_requests[procs[p].id].status = "paid"

\* the denial of a pending withdrawal request has succeeded
DenialDone(p) ==
  /\ Succeeded(p, "decideWithdrawal")
  /\ procs[p].action = "deny"
  /\ procs[p].pre.withdrawal_requests[procs[p].id].status = "pending"

\* C13: the denial of a pending withdrawal request marks the request denied
\* and changes nothing else: no ledger entry is appended, the balance and
\* the account's last withdrawal date are as before, so that the denial
\* does not close the daily gate of the account.
DenialHasNoLedgerEffect ==
  \A p \in Procs :
    DenialDone(p)
    => LET h == procs[p]
       IN /\ withdrawal_requests[h.id].status = "denied"
          /\ \A r \in DOMAIN withdrawal_requests \ {h.id} :
               withdrawal_requests[r] = h.pre.withdrawal_requests[r]
          /\ DOMAIN withdrawal_requests = DOMAIN h.pre.withdrawal_requests
          /\ transactions = h.pre.transactions
          /\ Balance(transactions, h.user) = Balance(h.pre.transactions, h.user)
          /\ users[h.user].last_withdrawal_date
               = h.pre.users[h.user].last_withdrawal_date
          /\ users = h.pre.users /\ investments = h.pre.investments

\* a denial that succeeded on an account holding a balance
DenialReached ==
  \E p \in Procs :
    /\ DenialDone(p)
    /\ Balance(transactions, procs[p].user) > 0

\* x rounded to two decimals of a kwacha, halves rounded up
round2(x) == ((x + Cent \div 2) \div Cent) * Cent

\* C14: every withdrawal request created with a gross amount of 50 or more
\* has charge = round2(0.12 * gross), net = gross - charge, and
\* net + charge = gross.
ChargeIsRoundedTwelvePercent ==
  \A r \in DOMAIN withdrawal_requests :
    LET q == withdrawal_requests[r]
    IN q.gross_amount >= K(MinWithdrawal)
       => /\ q.charge = round2((q.gross_amount * ChargePercent) \div 100)
          /\ q.net_amount = q.gross_amount - q.charge
          /\ q.net_amount + q.charge = q.gross_amount

\* the denial of a pending deposit request has succeeded
DepositDenialDone(p) ==
  /\ Succeeded(p, "decideDeposit")
  /\ procs[p].action = "deny"

\* C15: after a deposit request has been created the record is pending and
\* the ledger and the balance of the account are as before; after a pending
\* deposit request has been denied the record is denied and the ledger and
\* the balance of the account are as before.
DepositRequestAndDenialLeaveLedger ==
  \A p \in Procs :
    /\ Succeeded(p, "recharge")
       => LET h == procs[p]
          IN /\ h.lastID \notin DOMAIN h.pre.investments
             /\ investments[h.lastID].status = "pending"
             /\ investments[h.lastID].user_id = h.user
             /\ transactions = h.pre.transactions
             /\ Balance(transactions, h.user) = Balance(h.pre.transactions, h.user)
    /\ DepositDenialDone(p)
       => LET h == procs[p]
          IN /\ h.pre.investments[h.id].status = "pending"
             /\ investments[h.id].status = "denied"
             /\ transactions = h.pre.transactions
             /\ Balance(transactions, h.user) = Balance(h.pre.transactions, h.user)

DepositDenialReached == \E p \in Procs : DepositDenialDone(p)

\* C16: a deposit record never has status 'active', and the approval of a
\* deposit request changes neither the level of the account nor any other
\* row of investments.
DepositRecordNeverActive ==
  /\ \A i \in DOMAIN investments :
       IsDepositRequest(investments[i]) => investments[i].status # "active"
  /\ \A p \in Procs :
       (Succeeded(p, "decideDeposit") /\ procs[p].action = "approve")
       => /\ users = procs[p].pre.users
          /\ \A j \in DOMAIN investments \ {procs[p].id} :
               investments[j] = procs[p].pre.investments[j]

\* the accrual entries of the ledger that are linked to investment i
AccrualEntries(txs, i) ==
  {t \in DOMAIN txs : txs[t].type = "accrual" /\ txs[t].investment_id = i}

\* C17: a run of the accrual job for a day that was processed already
\* credits nothing: no investment has more accrual entries than days have
\* begun.
AccrualCreditsOncePerDay ==
  \A i \in DOMAIN investments :
    Cardinality(AccrualEntries(transactions, i)) <= today

\* C18: the ledger is append-only: every step keeps every entry of the
\* ledger as it is.
LedgerIsAppendOnly ==
  [][\A t \in DOMAIN transactions :
       t \in DOMAIN transactions' /\ transactions'[t] = transactions[t]]_vars

\* C19: when invest-from-balance fails at a write after its checks have
\* passed, the tables are as they were before the call: the prior
\* investment is still active, no investment and no debit were added, and
\* the level of the account is unchanged.
FailedSwitchLeavesNoTrace ==
  \A p \in Procs :
    (Done(p, "investFromBalance") /\ procs[p].result = "Failed")
    => DB = procs[p].pre

\* the investment debits of the ledger that are linked to investment i
DebitEntries(txs, i) ==
  {t \in DOMAIN txs : txs[t].type = "investment" /\ txs[t].investment_id = i}

\* C20: in every reachable state every active investment has an investment
\* debit linked to it in the ledger, and every investment debit of the
\* ledger is linked to an investment that exists.
SlotsAndDebitsPaired ==
  /\ \A i \in DOMAIN investments :
       investments[i].status = "active"
       => DebitEntries(transactions, i) # {}
  /\ \A t \in DOMAIN transactions :
       transactions[t].type = "investment"
       => transactions[t].investment_id \in DOMAIN investments

\* an invest-from-balance call for a tier other than the tier of any active
\* investment of the account, on a balance below the amount of the tier
UnderfundedCall(p) ==
  /\ Done(p, "investFromBalance")
  /\ procs[p].packageId \in DOMAIN Packages
  /\ procs[p].amount = Packages[procs[p].packageId].amount
  /\ \A i \in ActiveIds(procs[p].pre.investments, procs[p].user) :
       Packages[procs[p].pre.investments[i].package_id].level
         # Packages[procs[p].packageId].level
  /\ Balance(procs[p].pre.transactions, procs[p].user)
       < Packages[procs[p].packageId].amount

OneDepositEntryPerRecordedRequest ==
  Quiescent
  => \A i \in DOMAIN investments :
       IsDepositRequest(investments[i])
       => /\ Cardinality(DepositEntries(transactions, i)) <= 1
          /\ Cardinality(DepositEntries(transactions, i)) = 1
               <=> investments[i].status = "deposit_completed"

\* C23: whenever no handler is at work, whatever approvals of a withdrawal
\* request overlapped and whatever write of an approval failed, a
\* withdrawal request is paid exactly when one withdrawal entry was appended
\* for it: the ledger of an account holds as many withdrawal entries as the
\* account has paid requests.
PaidRequestHasOneLedgerEntry ==
  Quiescent
  => \A u \in Users :
       Cardinality(WithdrawalEntries(transactions, u))
         = Cardinality(PaidRequests(withdrawal_requests, u))

\* the accrual entries for investment i that were appended since the run of
\* the accrual job began
RunEntries(i) == AccrualEntries(transactions, i) \ DOMAIN cron.pre.transactions

\* C24: when a run of the accrual job ends, every investment that was
\* active when the run began has exactly one new accrual entry, of its
\* principal times the daily rate of its tier, and its counter of accruals
\* is higher by the same amount: no active investment was skipped, and
\* none has the counter without the entry or the entry without the counter.
RunCreditsEveryActiveSlot ==
  cron.pc = "done"
  => \A i \in DOMAIN cron.pre.investments :
       cron.pre.investments[i].status = "active"
       => /\ Cardinality(RunEntries(i)) = 1
          /\ \A t \in RunEntries(i) :
               transactions[t].amount = dailyAccrual(cron.pre.investments[i])
          /\ investments[i].total_accruals
               = cron.pre.investments[i].total_accruals
                   + dailyAccrual(cron.pre.investments[i])

\* C25: every entry of the ledger is appended by the operation specified
\* for its type: a deposit entry by the operator's approval of a pending
\* deposit request, an investment debit by invest-from-balance, an accrual
\* entry by the accrual job, a withdrawal entry by the operator's approval
\* of a withdrawal request. No step of a user alone credits a balance.
EveryEntryHasItsCause ==
  [][\A t \in DOMAIN transactions' \ DOMAIN transactions :
       \/ /\ transactions'[t].type = "deposit"
          /\ \E p \in Procs :
               /\ At(p, "decideDeposit", "insertTx")
               /\ procs[p].action = "approve"
               /\ transactions'[t].investment_id = procs[p].id
               /\ IsDepositRequest(procs[p].pre.investments[procs[p].id])
               /\ procs[p].pre.investments[procs[p].id].status = "pending"
       \/ /\ transactions'[t].type = "investment"
          /\ \E p \in Procs : At(p, "investFromBalance", "insertTx")
       \/ /\ transactions'[t].type = "accrual"
          /\ cron.pc = "insert"
       \/ /\ transactions'[t].type = "withdrawal"
          /\ \E p \in Procs :
               /\ At(p, "decideWithdrawal", "insertTx")
               /\ procs[p].action = "approve"]_vars

AccrualOnlyWhileActive ==
  [][\A t \in DOMAIN transactions' \ DOMAIN transactions :
       transactions'[t].type = "accrual"
       => /\ transactions'[t].investment_id \in DOMAIN investments
          /\ investments[transactions'[t].investment_id].status = "active"]_vars

\* C28: whenever no handler is at work, the level of every account is the
\* level of the tier of its active investment, or L0 when it has none; no
\* profile update of the user and no decision on a deposit changes it.
LevelIsTierOfActiveSlot ==
  Quiescent
  => \A u \in DOMAIN users :
       \/ /\ ActiveIds(investments, u) = {}
          /\ users[u].level = "L0"
       \/ \E i \in ActiveIds(investments, u) :
            users[u].level = Packages[investments[i].package_id].level

\* C29: no two deposit requests of one account carry the same transaction
\* reference, whether the requests were made one after the other or
\* overlapped.
DepositReferenceUnique ==
  \A i, j \in DOMAIN investments :
    ( /\ i # j
      /\ IsDepositRequest(investments[i])
      /\ IsDepositRequest(investments[j])
      /\ investments[i].user_id = investments[j].user_id )
    => investments[i].transaction_txt # investments[j].transaction_txt

\* C30: for every ledger, whatever its length, the balance the page derives
\* from the answer of GET /api/dashboard equals the balance that
\* invest-from-balance and withdraw compute from the ledger.
DashboardBalanceIsServerBalance ==
  \A p \in Procs :
    Succeeded(p, "dashboard")
    => currentBalance(procs[p].transactions)
         = Balance(transactions, procs[p].user)

====
